---- MODULE Spec2Model ----
(***************************************************************************)
(* Model of the job scheduler of jobs-concurency: the Job entity           *)
(* (src/src/models/job.js) and the JobService scheduler                    *)
(* (src/src/services/jobService.js, the Job-based class at lines 305-572). *)
(*                                                                         *)
(* JavaScript runs every handler to completion, so each public method and  *)
(* each launcher completion callback is one atomic action.  The launcher   *)
(* (node-cmd's run, i.e. child_process.exec) is an external collaborator:  *)
(* what it returns and what its callback later reports are inputs.         *)
(***************************************************************************)
EXTENDS Integers, Sequences, FiniteSets

\* ---------------------------------------------------------------- bounds
\* Number of jobs ever created in a behaviour of Spec.
MaxJobs == 2
\* Number of jobs ever created in a behaviour of SpecQueue.
MaxQueueJobs == 4
\* Number of jobs ever created in a behaviour of SpecTimed.
MaxTimedJobs == 2
\* Last reading of the clock in a behaviour of SpecTimed.
MaxClock == 3
\* Number of jobs ever created in a behaviour of SpecLaunch.
MaxLaunchJobs == 3
\* Number of jobs ever created in a behaviour of SpecPriority.
MaxPriorityJobs == 3
\* Number of jobs ever created in a behaviour of SpecRemove.
MaxRemoveJobs == 3
\* Number of jobs ever created in a behaviour of SpecApi.
MaxApiJobs == 3
\* Number of jobs ever created in a behaviour of SpecFault.
MaxFaultJobs == 3
\* Number of jobs ever created in a behaviour of SpecHandle.
MaxHandleJobs == 2
\* A caller stops calling incrementRetry on a job at this retryCount.
MaxHandleRetryCount == 1
\* Number of jobs ever created in a behaviour of SpecLive.
MaxLiveJobs == 3
\* Number of jobs ever created in a behaviour of SpecReentrant.
MaxReentrantJobs == 4
\* Number of jobs ever created in a behaviour of SpecClear.
MaxClearJobs == 3
\* Number of jobs ever created in a behaviour of SpecBoundary.
MaxBoundaryJobs == 2

\* ------------------------------------------------------ JavaScript values
\* A value passed as a priority: a number (NaN included, typeof NaN is
\* 'number'), a string, or undefined (argument omitted).
JSNum(n) == [type |-> "number", nan |-> FALSE, v |-> n]
JSNaN == [type |-> "number", nan |-> TRUE, v |-> 0]
JSString == [type |-> "string", nan |-> FALSE, v |-> 0]
JSUndefined == [type |-> "undefined", nan |-> FALSE, v |-> 0]
\* The string that is the decimal numeral of n >= 0 (a query value).
JSNumeral(n) == [type |-> "numeral", nan |-> FALSE, v |-> n]

\* a < n and a > n on numbers: every comparison with NaN is false.
JSLess(a, n) == ~a.nan /\ a.v < n
JSGreater(a, n) == ~a.nan /\ a.v > n

\* parseInt(x, 10) of a request value: an integer stays what it is, NaN and
\* a string without leading digits give NaN, a numeral gives its number.
ParseInt(x) ==
  CASE x.type = "number" /\ ~x.nan -> x
    [] x.type = "numeral" -> JSNum(x.v)
    [] OTHER -> JSNaN

\* null / a value
None == <<>>
Some(x) == <<x>>

\* ------------------------------------------------------------- JobStatus
PENDING == "pending"
RUNNING == "running"
COMPLETED == "completed"
FAILED == "failed"
RETRIED == "retried"
PAUSED == "paused"
STOPPING == "stopping"
JobStatus == {PENDING, RUNNING, COMPLETED, FAILED, RETRIED, PAUSED, STOPPING}

\* ------------------------------------------------------------ config
\* Values config gives <<MAX_CONCURRENT_JOBS, JOB_RETRY_ATTEMPTS>>: the
\* environment variables after parseInt, a concurrency cap of at least 1 and
\* a retry limit of at least 0.
ConfigEnv == {<<1, 2>>, <<2, 1>>, <<1, 0>>}
QueueConfigEnv == {<<1, 2>>}
DefaultMaxConcurrentJobs == 5
DefaultJobRetryAttempts == 3
\* x || d
OrDefault(x, d) == IF x = 0 THEN d ELSE x

\* ------------------------------------------------------------ inputs
\* Priorities callers pass: omitted, valid, out of range, NaN, a string.
PriorityInputs == {JSUndefined, JSNum(5), JSNaN, JSNum(0), JSString}
QueuePriorityInputs == {JSNum(1), JSNum(5), JSNaN}
\* createJob(jobName, jobArgs, priority) calls: a well-formed name and
\* argument list with each priority, an empty name, a jobArgs that is no array.
CreateRequests(priorities) ==
  {<<"job", "array", p>> : p \in priorities}
    \cup {<<"", "array", JSUndefined>>, <<"job", "notArray", JSUndefined>>}
\* What cmd.run does when a job is started: returns a child process with a
\* pid; returns one without a pid (the spawn failed, the callback will report
\* the error); or throws (no callback is registered).
LaunchOutcomes == {"pid", "nopid", "throw"}

VARIABLES
  config,             \* the config object the service is constructed from
  jobs,               \* every Job object ever constructed, by id (1..Len)
  jobIds,             \* keys of JobService.#jobs (insertion order = id order)
  runningJobs,        \* JobService.#runningJobs
  callbacks,          \* per job: launcher invocations that have not called back
  maxConcurrentJobs,  \* JobService.#maxConcurrentJobs
  jobRetryAttempts,   \* JobService.#jobRetryAttempts
  clock,              \* Date.now()
  lastCall            \* the last handler run: which, on which job, how it
                      \* ended, and the status changes updateStatus logged

vars == <<config, jobs, jobIds, runningJobs, callbacks, maxConcurrentJobs,
          jobRetryAttempts, clock, lastCall>>

\* ------------------------------------------------------------------ Job
\* The priority check of the Job constructor and of Job.updatePriority.
InvalidPriority(p) == p.type # "number" \/ JSLess(p, 1) \/ JSGreater(p, 5)

\* Job constructor: the validation.
JobConstructorThrows(name, args, priority) ==
  \/ name = ""
  \/ args # "array"
  \/ InvalidPriority(priority)

\* Job constructor: the object it builds.
NewJob(priority, now) ==
  [status |-> PENDING, priority |-> priority, createdAt |-> now,
   startedAt |-> None, completedAt |-> None, exitCode |-> None,
   retryCount |-> 0, process |-> None]

\* Job.updateStatus for a valid status.
UpdateStatus(job, status, now) ==
  [job EXCEPT
     !.status = status,
     !.startedAt = IF status = RUNNING /\ job.startedAt = None
                   THEN Some(now) ELSE @,
     !.completedAt = IF status \in {COMPLETED, FAILED} /\ job.completedAt = None
                     THEN Some(now) ELSE @]

\* Job.updatePriority for a valid priority.
UpdatePriority(job, priority) == [job EXCEPT !.priority = priority]

\* Job.incrementRetry
IncrementRetry(job) == [job EXCEPT !.retryCount = @ + 1]

\* Job.setExitCode for a number
SetExitCode(job, code) == [job EXCEPT !.exitCode = Some(code)]

\* Job.setProcess for a process with a pid
SetProcess(job) == [job EXCEPT !.process = Some("pid")]

\* ------------------------------------------------------------ scheduler
\* The scheduler's mutable state as one value, so that the private methods
\* are functions from state to state; log collects the "status changed:
\* old -> new" lines updateStatus writes while a handler runs.
State == [jobs |-> jobs, jobIds |-> jobIds, runningJobs |-> runningJobs,
          callbacks |-> callbacks, log |-> <<>>]

\* job.updateStatus(status) on the job with this id, and its log line.
SetStatus(s, id, status, now) ==
  [s EXCEPT !.jobs[id] = UpdateStatus(@, status, now),
            !.log = Append(@, <<id, s.jobs[id].status, status>>)]

Min(a, b) == IF a < b THEN a ELSE b

\* Ascending sequence of the members of a set of ids (Map iteration order).
RECURSIVE SeqOfSet(_)
SeqOfSet(S) ==
  IF S = {} THEN <<>>
  ELSE LET m == CHOOSE x \in S : \A y \in S : x <= y
       IN <<m>> \o SeqOfSet(S \ {m})

\* PendingList over every job ever created, deleted ones included.
PendingListOfEveryJob(s) ==
  SeqOfSet({i \in 1..Len(s.jobs) : s.jobs[i].status = PENDING})

\* getAllJobs().filter(job => job.status === PENDING), as ids
PendingList(s) ==
  SeqOfSet({i \in s.jobIds : s.jobs[i].status = PENDING})

\* The comparator (a, b) => b.priority - a.priority as Array.prototype.sort
\* reads it: a NaN result counts as 0.
Compare(s, a, b) ==
  LET pa == s.jobs[a].priority
      pb == s.jobs[b].priority
  IN IF pa.nan \/ pb.nan THEN 0 ELSE pb.v - pa.v

\* Stable sort of a list under Compare: each element is inserted before the
\* first element it strictly precedes.
RECURSIVE InsertSorted(_, _, _)
InsertSorted(s, sorted, x) ==
  IF sorted = <<>> THEN <<x>>
  ELSE IF Compare(s, Head(sorted), x) > 0
       THEN <<x>> \o sorted
       ELSE <<Head(sorted)>> \o InsertSorted(s, Tail(sorted), x)

RECURSIVE StableSort(_, _)
StableSort(s, list) ==
  IF list = <<>> THEN <<>>
  ELSE LET n == Len(list)
       IN InsertSorted(s, StableSort(s, SubSeq(list, 1, n - 1)), list[n])

\* Compare is a consistent comparator on the list unless a NaN priority
\* (equal to everything) sits beside two different priorities.
ConsistentComparator(s, list) ==
  LET ps == {s.jobs[list[k]].priority : k \in 1..Len(list)}
  IN ~(\E p \in ps : p.nan) \/ Cardinality({p \in ps : ~p.nan}) <= 1

Orderings(list) ==
  {p \in [1..Len(list) -> {list[k] : k \in 1..Len(list)}] :
     \A a, b \in 1..Len(list) : a # b => p[a] # p[b]}

\* The results .sort((a, b) => b.priority - a.priority) can give: the stable
\* descending order or, when the comparator is not consistent, an order the
\* language leaves to the implementation (ECMA-262, Array.prototype.sort).
SortOutcomes(s, list) ==
  IF ConsistentComparator(s, list) THEN {StableSort(s, list)}
  ELSE Orderings(list)

\* The catch branch of #startJob without this.#runningJobs.delete.
StartJobCatchKeepingSlot(s, id, now) ==
  SetStatus([s EXCEPT !.jobs[id] = SetExitCode(@, 1)], id, FAILED, now)

\* The catch branch of #startJob.
StartJobCatch(s, id, now) ==
  LET freed == [s EXCEPT !.runningJobs = @ \ {id},
                         !.jobs[id] = SetExitCode(@, 1)]
  IN SetStatus(freed, id, FAILED, now)

\* JobService.#startJob
StartJob(s, id, outcome, now) ==
  LET running == [SetStatus(s, id, RUNNING, now) EXCEPT
                    !.runningJobs = @ \cup {id}]
  IN IF outcome = "pid"
     THEN [running EXCEPT !.callbacks[id].spawned = @ + 1,
                          !.jobs[id] = SetProcess(@)]
     ELSE IF outcome = "nopid"
     THEN StartJobCatch([running EXCEPT !.callbacks[id].unspawned = @ + 1],
                        id, now)
     ELSE StartJobCatch(running, id, now)

\* The loop of #processQueue: start the first n jobs of the sorted list.
RECURSIVE StartJobs(_, _, _, _, _)
StartJobs(s, order, n, launch, now) ==
  IF n = 0 THEN s
  ELSE StartJobs(StartJob(s, order[1], launch[order[1]], now),
                 Tail(order), n - 1, launch, now)

\* JobsToStart without the slot accounting: every pending job is started.
JobsToStartIgnoringSlots(s) == Len(PendingList(s))

\* How many jobs #processQueue starts.
JobsToStart(s) ==
  IF Cardinality(s.runningJobs) >= maxConcurrentJobs THEN 0
  ELSE Min(maxConcurrentJobs - Cardinality(s.runningJobs), Len(PendingList(s)))

\* JobService.#processQueue, given the order the sort produced and what the
\* launcher does for each job started.
ProcessQueue(s, order, launch, now) ==
  StartJobs(s, order, JobsToStart(s), launch, now)

\* The inputs #processQueue consumes in state s.
Orders(s) == SortOutcomes(s, PendingList(s))
Launches(s, order, outcomes) ==
  [{order[k] : k \in 1..JobsToStart(s)} -> outcomes]

\* Whether the completion callback takes the retry branch.
RetryDecision(job, err) == err /\ job.retryCount < jobRetryAttempts

\* The launcher's completion callback of #startJob, up to the point where it
\* calls #processQueue (or returns without calling it).
CompletionUpdate(s, id, err, now) ==
  LET freed == [s EXCEPT !.runningJobs = @ \ {id}]
  IN IF RetryDecision(s.jobs[id], err)
     THEN SetStatus([freed EXCEPT !.jobs[id] = IncrementRetry(@)],
                    id, PENDING, now)
     ELSE IF err
     THEN SetStatus([freed EXCEPT !.jobs[id] = SetExitCode(@, 1)],
                    id, FAILED, now)
     ELSE SetStatus([freed EXCEPT !.jobs[id] = SetExitCode(@, 0)],
                    id, COMPLETED, now)

\* Whether the callback goes on to call #processQueue: the retry branch and
\* the success path do, the permanent-failure branch returns before it.
CompletionDispatches(job, err) == ~err \/ RetryDecision(job, err)

\* JobService.getAllJobs, as ids
GetAllJobs == SeqOfSet(jobIds)

\* The power of ten above n: appending the numeral of n to a numeral shifts
\* it by so much.
RECURSIVE Shift(_)
Shift(n) == IF n < 10 THEN 10 ELSE 10 * Shift(n \div 10)

\* a + b for a number b: the sum when a is a number, the concatenation of a
\* and String(b) when a is a string.
JSPlus(a, b) ==
  CASE a.type = "number" ->
         IF a.nan \/ b.nan THEN JSNaN ELSE JSNum(a.v + b.v)
    [] a.type = "numeral" ->
         IF b.nan THEN JSString ELSE JSNumeral(a.v * Shift(b.v) + b.v)
    [] OTHER -> JSString

\* The integer Array.prototype.slice makes of an argument: NaN and strings
\* that are no numeral count as 0.
ToIntegerOrInfinity(x) ==
  IF x.type \in {"number", "numeral"} /\ ~x.nan THEN x.v ELSE 0

Max(a, b) == IF a > b THEN a ELSE b

\* list.slice(start, end) for arguments that are not negative
Slice(list, start, end) ==
  LET k == Min(Max(ToIntegerOrInfinity(start), 0), Len(list))
      final == Min(Max(ToIntegerOrInfinity(end), 0), Len(list))
  IN SubSeq(list, k + 1, final)

\* list.filter(job => job.status === status)
RECURSIVE FilterByStatus(_, _)
FilterByStatus(list, status) ==
  IF list = <<>> THEN <<>>
  ELSE (IF jobs[Head(list)].status = status THEN <<Head(list)>> ELSE <<>>)
         \o FilterByStatus(Tail(list), status)

DefaultLimit == 50
DefaultOffset == 0

\* getFilteredJobs counting the total after the slice instead of before.
GetFilteredJobsTotalOfPage(status, limit, offset) ==
  LET lim == IF limit = JSUndefined THEN JSNum(DefaultLimit) ELSE limit
      off == IF offset = JSUndefined THEN JSNum(DefaultOffset) ELSE offset
      filtered == IF status # "" THEN FilterByStatus(GetAllJobs, status)
                  ELSE GetAllJobs
      page == Slice(filtered, off, JSPlus(off, ParseInt(lim)))
  IN [total |-> Len(page), jobs |-> page]

\* JobService.getFilteredJobs({ status, limit = 50, offset = 0 }); status ""
\* stands for a status that is not given (or empty: both are falsy).
GetFilteredJobs(status, limit, offset) ==
  LET lim == IF limit = JSUndefined THEN JSNum(DefaultLimit) ELSE limit
      off == IF offset = JSUndefined THEN JSNum(DefaultOffset) ELSE offset
      filtered == IF status # "" THEN FilterByStatus(GetAllJobs, status)
                  ELSE GetAllJobs
  IN [total |-> Len(filtered),
      jobs |-> Slice(filtered, off, JSPlus(off, ParseInt(lim)))]

\* JobController.getAllJobs: the query values are strings where given, and
\* the handler's own defaults where not.
JobControllerGetAllJobs(query) ==
  GetFilteredJobs(query.status,
                  IF query.limit = JSUndefined THEN JSNum(DefaultLimit)
                  ELSE query.limit,
                  IF query.offset = JSUndefined THEN JSNum(DefaultOffset)
                  ELSE query.offset)

\* JobService.getJobById
GetJobById(id) == IF id \in jobIds THEN Some(jobs[id]) ELSE None

\* A quotient n / d of two counts, kept as the pair; equality of quotients.
Quotient(n, d) == <<n, d>>
SameQuotient(a, b) == a[1] * b[2] = b[1] * a[2]

\* getJobStats of the earlier variant of the service: the counts, the
\* success rate (completedJobs / totalJobs) * 100 and, of its patterns, the
\* one over the retried jobs, with differenceFromAverage as the number in
\* front of its '%'.
EarlierGetJobStats ==
  LET Count(status) == Cardinality({i \in jobIds : jobs[i].status = status})
      totalJobs == Cardinality(jobIds)
      successRate == IF totalJobs > 0
                     THEN Quotient(Count(COMPLETED) * 100, totalJobs)
                     ELSE Quotient(0, 1)
      retriedJobs == {i \in jobIds : jobs[i].retryCount > 0}
      retriedCompleted == {i \in retriedJobs : jobs[i].status = COMPLETED}
      retriedSuccessRate ==
        Quotient(Cardinality(retriedCompleted), Cardinality(retriedJobs))
  IN [totalJobs |-> totalJobs,
      completedJobs |-> Count(COMPLETED),
      failedJobs |-> Count(FAILED),
      pendingJobs |-> Count(PENDING),
      runningJobs |-> Count(RUNNING),
      retriedJobs |-> Cardinality(retriedJobs),
      successRate |-> successRate,
      patterns |->
        IF retriedJobs = {} THEN <<>>
        ELSE <<[pattern |-> "Jobs that were retried",
                matchCount |-> Cardinality(retriedJobs),
                successRate |-> retriedSuccessRate,
                differenceFromAverage |->
                  Quotient(retriedSuccessRate[1] * 100 * successRate[2]
                             - successRate[1] * retriedSuccessRate[2],
                           retriedSuccessRate[2] * successRate[2])]>>]

\* getJobStats reporting the PENDING jobs among the running ones as well.
GetJobStatsRunningOrPending ==
  LET Count(status) == Cardinality({i \in jobIds : jobs[i].status = status})
  IN [totalJobs |-> Cardinality(jobIds),
      completedJobs |-> Count(COMPLETED),
      failedJobs |-> Count(FAILED),
      pendingJobs |-> Count(PENDING),
      runningJobs |-> Count(RUNNING) + Count(PENDING),
      retriedJobs |-> Cardinality({i \in jobIds : jobs[i].retryCount > 0})]

\* JobService.getJobStats: the counts.
GetJobStats ==
  LET Count(status) == Cardinality({i \in jobIds : jobs[i].status = status})
  IN [totalJobs |-> Cardinality(jobIds),
      completedJobs |-> Count(COMPLETED),
      failedJobs |-> Count(FAILED),
      pendingJobs |-> Count(PENDING),
      runningJobs |-> Count(RUNNING),
      retriedJobs |-> Cardinality({i \in jobIds : jobs[i].retryCount > 0})]

\* ------------------------------------------------------------- actions
Call(op, id, outcome) == [op |-> op, id |-> id, outcome |-> outcome]

\* The handler ends leaving the scheduler in state s.
Install(s, call) ==
  /\ jobs' = s.jobs
  /\ jobIds' = s.jobIds
  /\ runningJobs' = s.runningJobs
  /\ callbacks' = s.callbacks
  /\ lastCall' = [op |-> call.op, id |-> call.id, outcome |-> call.outcome,
                  changes |-> s.log]
  /\ UNCHANGED <<config, maxConcurrentJobs, jobRetryAttempts, clock>>

\* A handler's tail call of #processQueue.
Dispatch(s, outcomes, call) ==
  \E order \in Orders(s) : \E launch \in Launches(s, order, outcomes) :
    Install(ProcessQueue(s, order, launch, clock), call)

\* JobService constructor
InitIn(envs) ==
  /\ jobs = <<>>
  /\ jobIds = {}
  /\ runningJobs = {}
  /\ callbacks = <<>>
  /\ \E env \in envs :
       config = [MAX_CONCURRENT_JOBS |-> env[1], JOB_RETRY_ATTEMPTS |-> env[2]]
  /\ maxConcurrentJobs =
       OrDefault(config.MAX_CONCURRENT_JOBS, DefaultMaxConcurrentJobs)
  /\ jobRetryAttempts =
       OrDefault(config.JOB_RETRY_ATTEMPTS, DefaultJobRetryAttempts)
  /\ clock = 1
  /\ lastCall = [op |-> "constructor", id |-> 0, outcome |-> "returned",
                 changes |-> <<>>]

\* JobService.createJob
CreateJobIn(requests, outcomes, maxJobs) ==
  \E request \in requests :
    LET priority == IF request[3] = JSUndefined THEN JSNum(3) ELSE request[3]
        id == Len(jobs) + 1
    IN IF JobConstructorThrows(request[1], request[2], priority)
       THEN Install(State, Call("createJob", 0, "threw"))
       ELSE /\ Len(jobs) < maxJobs
            /\ Dispatch([State EXCEPT
                           !.jobs = Append(@, NewJob(priority, clock)),
                           !.jobIds = @ \cup {id},
                           !.callbacks = Append(@, [spawned |-> 0,
                                                    unspawned |-> 0])],
                        outcomes, Call("createJob", id, "returned"))

\* The launcher's completion callback of #startJob, for an invocation that
\* has not called back yet; one whose spawn failed reports an error.
Callback(id, kind, err, outcomes) ==
  /\ id \in 1..Len(jobs)
  /\ callbacks[id][kind] > 0
  /\ kind = "unspawned" => err
  /\ LET s0 == [State EXCEPT !.callbacks[id][kind] = @ - 1]
         s1 == CompletionUpdate(s0, id, err, clock)
         call == Call("callback", id, IF err THEN "error" ELSE "success")
     IN IF CompletionDispatches(jobs[id], err)
        THEN Dispatch(s1, outcomes, call)
        ELSE Install(s1, call)

\* The callback for some invocation that has not called back yet.
CompleteIn(outcomes) ==
  \E id \in 1..Len(jobs), kind \in {"spawned", "unspawned"}, err \in BOOLEAN :
    Callback(id, kind, err, outcomes)

\* The exit codes a launcher's report can carry: 0 with no error, else the
\* err.code of the failed process.
ExitCodes == {0, 1, 2}

\* The callback for a process of job id that exited with this code: err is
\* set exactly when the code is not 0, and the callback reads nothing else
\* of it.
CallbackReporting(id, code, outcomes) ==
  Callback(id, "spawned", code # 0, outcomes)

\* The points of the completion callback at which a call it makes (a logger
\* call of its own, or the logger call that ends a Job method) can throw:
\* after 0, 1 or 2 of the two Job methods it calls before #processQueue.
InterruptionPoints == 0..2

\* The callback's effect when the call at point k throws: the slot is freed
\* first, then the Job methods that returned or had assigned their field.
CompletionInterrupted(s, id, err, now, k) ==
  LET freed == [s EXCEPT !.runningJobs = @ \ {id}]
      first == [freed EXCEPT !.jobs[id] =
                  IF RetryDecision(s.jobs[id], err) THEN IncrementRetry(@)
                  ELSE SetExitCode(@, IF err THEN 1 ELSE 0)]
  IN CASE k = 0 -> freed
       [] k = 1 -> first
       [] k = 2 -> CompletionUpdate(s, id, err, now)

\* The completion callback of #startJob when a call inside it throws: the
\* callback has no try/catch, so the exception leaves it and, with no
\* process-level handler, ends the process.
CompleteInterrupted(id, kind, err, k) ==
  /\ id \in 1..Len(jobs)
  /\ callbacks[id][kind] > 0
  /\ kind = "unspawned" => err
  /\ LET s0 == [State EXCEPT !.callbacks[id][kind] = @ - 1]
     IN Install(CompletionInterrupted(s0, id, err, clock, k),
                Call("callback", id, "uncaught"))

\* updateJobPriority without the lookup check: job.updatePriority on a job
\* that is not in the map throws.
UpdateJobPriorityUnchecked(priorities, outcomes) ==
  \E id \in 0..Len(jobs), given \in priorities :
    LET priority == IF given = JSUndefined THEN JSNum(3) ELSE given
    IN IF id \notin jobIds \/ InvalidPriority(priority)
       THEN Install(State, Call("updateJobPriority", id, "threw"))
       ELSE LET s1 == [State EXCEPT !.jobs[id] = UpdatePriority(@, priority)]
                call == Call("updateJobPriority", id, "returned")
            IN IF jobs[id].status = PENDING
               THEN Dispatch(s1, outcomes, call)
               ELSE Install(s1, call)

\* updateJobPriority running the dispatch evaluation whatever the status of
\* the job is.
UpdateJobPriorityAlwaysDispatching(priorities, outcomes) ==
  \E id \in 0..Len(jobs), given \in priorities :
    LET priority == IF given = JSUndefined THEN JSNum(3) ELSE given
    IN IF id \notin jobIds
       THEN Install(State, Call("updateJobPriority", id, "null"))
       ELSE IF InvalidPriority(priority)
       THEN Install(State, Call("updateJobPriority", id, "threw"))
       ELSE Dispatch([State EXCEPT !.jobs[id] = UpdatePriority(@, priority)],
                     outcomes, Call("updateJobPriority", id, "returned"))

\* JobService.updateJobPriority
UpdateJobPriorityIn(priorities, outcomes) ==
  \E id \in 0..Len(jobs), given \in priorities :
    LET priority == IF given = JSUndefined THEN JSNum(3) ELSE given
    IN IF id \notin jobIds
       THEN Install(State, Call("updateJobPriority", id, "null"))
       ELSE IF InvalidPriority(priority)
       THEN Install(State, Call("updateJobPriority", id, "threw"))
       ELSE LET s1 == [State EXCEPT !.jobs[id] = UpdatePriority(@, priority)]
                call == Call("updateJobPriority", id, "returned")
            IN IF jobs[id].status = PENDING
               THEN Dispatch(s1, outcomes, call)
               ELSE Install(s1, call)

\* deleteJob that removes a job whatever its status.
DeleteJobResultAnyStatus(id) ==
  IF id \notin jobIds
  THEN [success |-> FALSE, reason |-> "not_found"]
  ELSE [success |-> TRUE, reason |-> "success"]

\* JobService.deleteJob: the result object.
DeleteJobResult(id) ==
  IF id \notin jobIds
  THEN [success |-> FALSE, reason |-> "not_found"]
  ELSE IF jobs[id].status \in {PENDING, PAUSED}
  THEN [success |-> TRUE, reason |-> "success"]
  ELSE [success |-> FALSE, reason |-> "invalid_status",
        status |-> jobs[id].status]

\* JobService.deleteJob
DeleteJob ==
  \E id \in 0..Len(jobs) :
    LET result == DeleteJobResult(id)
    IN Install(IF result.success THEN [State EXCEPT !.jobIds = @ \ {id}]
               ELSE State,
               Call("deleteJob", id, result.reason))

Init == InitIn(ConfigEnv)
CreateJob == CreateJobIn(CreateRequests(PriorityInputs), LaunchOutcomes, MaxJobs)
Complete == CompleteIn(LaunchOutcomes)
UpdateJobPriority == UpdateJobPriorityIn(PriorityInputs, LaunchOutcomes)

Next ==
  \/ CreateJob
  \/ Complete
  \/ UpdateJobPriority
  \/ DeleteJob

Spec == Init /\ [][Next]_vars

\* The scheduler with one slot, a launcher that always starts the process,
\* and well-formed names and argument lists: the queue of pending jobs.
QueueInit == InitIn(QueueConfigEnv)
QueueCreateJob == CreateJobIn({<<"job", "array", p>> : p \in QueuePriorityInputs},
                              {"pid"}, MaxQueueJobs)
QueueComplete == CompleteIn({"pid"})

QueueNext ==
  \/ QueueCreateJob
  \/ QueueComplete

SpecQueue == QueueInit /\ [][QueueNext]_vars

\* The scheduler while time passes between handlers: new Date() reads a
\* later clock in a later handler.
TimedConfigEnv == {<<1, 1>>}
TimedPriorityInputs == {JSNum(1), JSNum(5)}
TimedInit == InitIn(TimedConfigEnv)
TimedCreateJob ==
  CreateJobIn({<<"job", "array", p>> : p \in TimedPriorityInputs},
              LaunchOutcomes, MaxTimedJobs)
TimedComplete == CompleteIn(LaunchOutcomes)
Tick ==
  /\ clock < MaxClock
  /\ clock' = clock + 1
  /\ lastCall' = [op |-> "clock", id |-> 0, outcome |-> "advanced",
                  changes |-> <<>>]
  /\ UNCHANGED <<config, jobs, jobIds, runningJobs, callbacks,
                 maxConcurrentJobs, jobRetryAttempts>>

TimedNext ==
  \/ TimedCreateJob
  \/ TimedComplete
  \/ Tick

SpecTimed == TimedInit /\ [][TimedNext]_vars

\* The scheduler with one slot, jobs of the default priority and a launcher
\* that may throw: dispatch evaluations whose launches fail.
LaunchConfigEnv == {<<1, 1>>}
LaunchFailures == {"pid", "throw"}
LaunchInit == InitIn(LaunchConfigEnv)
LaunchCreateJob ==
  CreateJobIn({<<"job", "array", JSUndefined>>}, LaunchFailures, MaxLaunchJobs)
LaunchComplete == CompleteIn(LaunchFailures)

LaunchNext ==
  \/ LaunchCreateJob
  \/ LaunchComplete

SpecLaunch == LaunchInit /\ [][LaunchNext]_vars

\* The scheduler with one slot and a launcher that always starts the
\* process, while priorities are updated: jobs are submitted with a valid
\* priority, updates carry what the boundary handler's parseInt passes on.
PriorityConfigEnv == {<<1, 1>>}
SubmittedPriorities == {JSNum(1), JSNum(5)}
UpdatedPriorities == {JSNum(5), JSNaN}
PriorityInit == InitIn(PriorityConfigEnv)
PriorityCreateJob ==
  CreateJobIn({<<"job", "array", p>> : p \in SubmittedPriorities},
              {"pid"}, MaxPriorityJobs)
PriorityComplete == CompleteIn({"pid"})
PriorityUpdate == UpdateJobPriorityIn(UpdatedPriorities, {"pid"})

PriorityNext ==
  \/ PriorityCreateJob
  \/ PriorityComplete
  \/ PriorityUpdate

SpecPriority == PriorityInit /\ [][PriorityNext]_vars

\* The scheduler with one slot and jobs of the default priority, while jobs
\* are removed.
RemoveConfigEnv == {<<1, 1>>}
RemoveInit == InitIn(RemoveConfigEnv)
RemoveCreateJob ==
  CreateJobIn({<<"job", "array", JSUndefined>>}, LaunchFailures, MaxRemoveJobs)
RemoveComplete == CompleteIn(LaunchFailures)

RemoveNext ==
  \/ RemoveCreateJob
  \/ RemoveComplete
  \/ DeleteJob

SpecRemove == RemoveInit /\ [][RemoveNext]_vars

\* The calls a caller makes on a Job it was handed: createJob, getJobById and
\* getAllJobs return the Job instances of the map, and these are the public
\* methods of class Job that assign a field.
JobMethodCalls ==
  {<<"updateStatus", RUNNING>>, <<"updateStatus", COMPLETED>>,
   <<"updatePriority", JSNum(1)>>, <<"incrementRetry", JSUndefined>>,
   <<"setExitCode", JSNum(0)>>}
\* Calls of the validating methods with an argument that is not valid: a
\* status outside JobStatus, a priority that is no integer from 1 to 5, an
\* exit code that is no number, a process without pid or no process.
InvalidJobMethodCalls ==
  {<<"updateStatus", "unknown">>,
   <<"updatePriority", JSNum(0)>>, <<"updatePriority", JSNum(6)>>,
   <<"updatePriority", JSString>>, <<"updatePriority", JSNaN>>,
   <<"setExitCode", JSString>>, <<"setExitCode", JSUndefined>>,
   <<"setProcess", "nopid">>, <<"setProcess", "null">>}

\* A method of class Job called with an argument: whether it throws, and
\* the job afterwards.
JobMethod(job, method, now) ==
  LET throws == [threw |-> TRUE, job |-> job]
      returns(j) == [threw |-> FALSE, job |-> j]
      arg == method[2]
  IN CASE method[1] = "updateStatus" ->
            IF arg \notin JobStatus THEN throws
            ELSE returns(UpdateStatus(job, arg, now))
       [] method[1] = "updatePriority" ->
            IF InvalidPriority(arg) THEN throws
            ELSE returns(UpdatePriority(job, arg))
       [] method[1] = "incrementRetry" -> returns(IncrementRetry(job))
       [] method[1] = "setExitCode" ->
            IF arg.type # "number" THEN throws
            ELSE returns(SetExitCode(job, arg.v))
       [] method[1] = "setProcess" ->
            IF arg # "pid" THEN throws ELSE returns(SetProcess(job))

\* A caller calls a method of the Job instance it was handed for job id.
JobMethodCall(id, method) ==
  /\ id \in jobIds
  /\ method[1] = "incrementRetry" =>
       jobs[id].retryCount < MaxHandleRetryCount
  /\ LET result == JobMethod(jobs[id], method, clock)
         change == IF method[1] = "updateStatus"
                   THEN <<<<id, jobs[id].status, method[2]>>>> ELSE <<>>
     IN IF result.threw
        THEN Install(State, Call(method[1], id, "threw"))
        ELSE Install([State EXCEPT !.jobs[id] = result.job, !.log = change],
                     Call(method[1], id, "returned"))

\* The scheduler with one slot and callers that use the Job instances handed
\* to them.
HandleConfigEnv == {<<1, 1>>}
HandleInit == InitIn(HandleConfigEnv)
HandleCreateJob ==
  CreateJobIn(CreateRequests({JSNum(5)}), {"pid"}, MaxHandleJobs)
HandleComplete == CompleteIn({"pid"})
HandleJobMethodCall ==
  \E id \in 1..Len(jobs) :
    \/ \E method \in JobMethodCalls : JobMethodCall(id, method)
    \/ \E method \in InvalidJobMethodCalls : JobMethodCall(id, method)

HandleNext ==
  \/ HandleCreateJob
  \/ HandleComplete
  \/ HandleJobMethodCall

SpecHandle == HandleInit /\ [][HandleNext]_vars

\* The scheduler with one slot whose completion callback may be interrupted
\* by an exception; once one has left a callback the process is gone.
FaultConfigEnv == {<<1, 1>>}
ProcessAlive == lastCall.outcome # "uncaught"
FaultInit == InitIn(FaultConfigEnv)
FaultCreateJob ==
  /\ ProcessAlive
  /\ CreateJobIn(CreateRequests({JSNum(1), JSNum(5)}), {"pid"}, MaxFaultJobs)
FaultComplete == ProcessAlive /\ CompleteIn({"pid"})
FaultCompleteInterrupted ==
  /\ ProcessAlive
  /\ \E id \in 1..Len(jobs), kind \in {"spawned", "unspawned"},
        err \in BOOLEAN, k \in InterruptionPoints :
       CompleteInterrupted(id, kind, err, k)

FaultNext ==
  \/ FaultCreateJob
  \/ FaultComplete
  \/ FaultCompleteInterrupted

SpecFault == FaultInit /\ [][FaultNext]_vars

\* The scheduler with one or two slots and one retry, finitely many
\* submissions and a launcher that starts every process and reports every
\* completion: a callback that is outstanding is eventually delivered.
LiveConfigEnv == {<<1, 1>>, <<2, 1>>}
LiveInit == InitIn(LiveConfigEnv)
LiveCreateJob ==
  CreateJobIn({<<"job", "array", JSUndefined>>}, {"pid"}, MaxLiveJobs)
LiveComplete == CompleteIn({"pid"})

LiveNext ==
  \/ LiveCreateJob
  \/ LiveComplete

SpecLive == LiveInit /\ [][LiveNext]_vars /\ WF_vars(LiveComplete)

\* JobService.clearAllJobs: the map and the running set are emptied; the
\* callbacks of the launcher invocations under way stay registered.
ClearAllJobs ==
  Install([State EXCEPT !.jobIds = {}, !.runningJobs = {}],
          Call("clearAllJobs", 0, "returned"))

\* The scheduler with one slot and one retry, every launcher outcome, and
\* clearAllJobs among its calls.
ClearConfigEnv == {<<1, 1>>}
ClearInit == InitIn(ClearConfigEnv)
ClearCreateJob ==
  CreateJobIn({<<"job", "array", JSUndefined>>}, LaunchOutcomes, MaxClearJobs)
ClearComplete == CompleteIn(LaunchOutcomes)

ClearNext ==
  \/ ClearCreateJob
  \/ ClearComplete
  \/ ClearAllJobs

SpecClear == ClearInit /\ [][ClearNext]_vars

\* ------------------------------------------- launcher that calls back at once
\* What cmd.run does here when a job is started: it returns a child process
\* and calls back later ("pid"), or it calls the callback with success before
\* it returns (as the launcher of the unit tests does), so that the callback,
\* and the #processQueue the callback ends with, run inside #startJob.
LaunchModes == {"pid", "sync"}

RECURSIVE ProcessQueueReentrant(_, _, _)

\* JobService.#startJob with such a launcher; launch gives, per job, what the
\* launcher does whenever that job is started.
StartJobReentrant(s, id, launch, now) ==
  LET running == [SetStatus(s, id, RUNNING, now) EXCEPT
                    !.runningJobs = @ \cup {id}]
  IN IF launch[id] = "pid"
     THEN [running EXCEPT !.callbacks[id].spawned = @ + 1,
                          !.jobs[id] = SetProcess(@)]
     ELSE LET completed == CompletionUpdate(running, id, FALSE, now)
              dispatched == ProcessQueueReentrant(completed, launch, now)
          IN [dispatched EXCEPT !.jobs[id] = SetProcess(@)]

\* The loop of #processQueue over the list it took before the loop.
RECURSIVE StartJobsReentrant(_, _, _, _, _)
StartJobsReentrant(s, order, n, launch, now) ==
  IF n = 0 THEN s
  ELSE StartJobsReentrant(StartJobReentrant(s, order[1], launch, now),
                          Tail(order), n - 1, launch, now)

\* JobService.#processQueue with such a launcher.
ProcessQueueReentrant(s, launch, now) ==
  StartJobsReentrant(s, StableSort(s, PendingList(s)), JobsToStart(s),
                     launch, now)

\* A handler's tail call of #processQueue with such a launcher.
DispatchReentrant(s, call) ==
  \E launch \in [s.jobIds -> LaunchModes] :
    Install(ProcessQueueReentrant(s, launch, clock), call)

\* The scheduler with two slots and one retry and a launcher that may call
\* back at once.
ReentrantConfigEnv == {<<2, 1>>}
ReentrantInit == InitIn(ReentrantConfigEnv)
ReentrantCreateJob ==
  LET id == Len(jobs) + 1
  IN /\ Len(jobs) < MaxReentrantJobs
     /\ DispatchReentrant([State EXCEPT
                             !.jobs = Append(@, NewJob(JSNum(3), clock)),
                             !.jobIds = @ \cup {id},
                             !.callbacks = Append(@, [spawned |-> 0,
                                                      unspawned |-> 0])],
                          Call("createJob", id, "returned"))
ReentrantComplete ==
  \E id \in 1..Len(jobs), err \in BOOLEAN :
    /\ callbacks[id].spawned > 0
    /\ LET s0 == [State EXCEPT !.callbacks[id].spawned = @ - 1]
           s1 == CompletionUpdate(s0, id, err, clock)
           call == Call("callback", id, IF err THEN "error" ELSE "success")
       IN IF CompletionDispatches(jobs[id], err)
          THEN DispatchReentrant(s1, call)
          ELSE Install(s1, call)

ReentrantNext ==
  \/ ReentrantCreateJob
  \/ ReentrantComplete

SpecReentrant == ReentrantInit /\ [][ReentrantNext]_vars

\* ------------------------------------------------------- JobController
\* Request bodies of POST /jobs: <<jobName, args, priority>>, with jobName
\* absent ("") or given.
CreateBodies ==
  {<<name, "array", p>> : name \in {"", "job"},
                          p \in {JSUndefined, JSNum(5), JSNum(0)}}
\* priority values in the body of PUT /jobs/:id/priority
PriorityBodies == {JSUndefined, JSNum(5), JSNum(0), JSString}

\* JobController.createJob: the priority it passes to the service.
JobPriorityOfBody(priority) ==
  IF priority.type = "number" /\ JSGreater(priority, 0) /\ JSLess(priority, 6)
  THEN ParseInt(priority) ELSE JSNum(3)

\* JobController.createJob, answering with an HTTP status.
JobControllerCreateJob(body, outcomes, maxJobs) ==
  LET id == Len(jobs) + 1
      priority == JobPriorityOfBody(body[3])
  IN IF body[1] = ""
     THEN Install(State, Call("POST /jobs", 0, "400"))
     ELSE IF JobConstructorThrows(body[1], body[2], priority)
     THEN Install(State, Call("POST /jobs", 0, "500"))
     ELSE /\ Len(jobs) < maxJobs
          /\ Dispatch([State EXCEPT
                         !.jobs = Append(@, NewJob(priority, clock)),
                         !.jobIds = @ \cup {id},
                         !.callbacks = Append(@, [spawned |-> 0,
                                                  unspawned |-> 0])],
                      outcomes, Call("POST /jobs", id, "201"))

\* JobController.updateJobPriorityById, answering with an HTTP status.
JobControllerUpdateJobPriorityById(id, body, outcomes) ==
  LET jobPriority == ParseInt(body)
      respond(code) == Call("PUT /jobs/:id/priority", id, code)
  IN IF body = JSUndefined
     THEN Install(State, respond("400"))
     ELSE IF id \notin jobIds
     THEN Install(State, respond("404"))
     ELSE IF InvalidPriority(jobPriority)
     THEN Install(State, respond("500"))
     ELSE LET s1 == [State EXCEPT
                       !.jobs[id] = UpdatePriority(@, jobPriority)]
          IN IF jobs[id].status = PENDING
             THEN Dispatch(s1, outcomes, respond("200"))
             ELSE Install(s1, respond("200"))

\* JobController.getJobById: the HTTP status.
JobControllerGetJobById(id) ==
  IF GetJobById(id) = None THEN "404" ELSE "200"

\* The scheduler behind its HTTP handlers, with one slot and a launcher that
\* always starts the process.
BoundaryConfigEnv == {<<1, 1>>}
BoundaryInit == InitIn(BoundaryConfigEnv)
BoundaryCreateJob ==
  \E body \in CreateBodies :
    JobControllerCreateJob(body, {"pid"}, MaxBoundaryJobs)
BoundaryUpdateJobPriority ==
  \E id \in 0..Len(jobs), body \in PriorityBodies :
    JobControllerUpdateJobPriorityById(id, body, {"pid"})
BoundaryComplete == CompleteIn({"pid"})

BoundaryNext ==
  \/ BoundaryCreateJob
  \/ BoundaryUpdateJobPriority
  \/ BoundaryComplete

SpecBoundary == BoundaryInit /\ [][BoundaryNext]_vars

\* The scheduler with one slot as its callers use it: submissions of the
\* default priority, priority updates, removals, completions.
ApiConfigEnv == {<<1, 1>>}
ApiPriorityInputs == {JSNum(5), JSNum(0)}
ApiInit == InitIn(ApiConfigEnv)
ApiCreateJob ==
  CreateJobIn({<<"job", "array", JSUndefined>>}, LaunchFailures, MaxApiJobs)
ApiComplete == CompleteIn(LaunchFailures)
ApiUpdateJobPriority == UpdateJobPriorityIn(ApiPriorityInputs, LaunchFailures)

ApiNext ==
  \/ ApiCreateJob
  \/ ApiComplete
  \/ ApiUpdateJobPriority
  \/ DeleteJob

SpecApi == ApiInit /\ [][ApiNext]_vars

\* ---------------------------------------------------------------- claims
\* The configuration the scheduler is given: the concurrency cap and the
\* retry limit.
maxConcurrent == config.MAX_CONCURRENT_JOBS
maxRetries == config.JOB_RETRY_ATTEMPTS
\* The status changes the last handler made: <<id, old, new>>.
Changes == {lastCall.changes[k] : k \in 1..Len(lastCall.changes)}
\* The jobs the last handler moved to RUNNING.
Started == {e[1] : e \in {c \in Changes : c[3] = RUNNING}}
PendingIds == {i \in jobIds : jobs[i].status = PENDING}
Outstanding(j) == callbacks[j].spawned + callbacks[j].unspawned
\* The last handler was the launcher's failure report for job j.
FailureReported(call, j) ==
  call.op = "callback" /\ call.id = j /\ call.outcome = "error"

\* C1: in every reachable state the running set holds at most maxConcurrent
\* ids.
ConcurrencyCap == Cardinality(runningJobs) <= maxConcurrent

\* A submission found every slot taken and left the new job pending.
ConcurrencyCapWitness ==
  /\ lastCall.op = "createJob" /\ lastCall.outcome = "returned"
  /\ Cardinality(runningJobs) = maxConcurrent
  /\ lastCall.id \in PendingIds

\* C2: a job whose launcher fails on every attempt goes RUNNING->RETRIED
\* once per failure while retryCount < maxRetries (so maxRetries times) and
\* RUNNING->FAILED on the next failure, with retryCount = maxRetries.
RetriedThenFailed ==
  [][\A j \in 1..Len(jobs) :
       (FailureReported(lastCall', j) /\ jobs[j].status = RUNNING) =>
         IF jobs[j].retryCount < maxRetries
         THEN /\ \E k \in 1..Len(lastCall'.changes) :
                   lastCall'.changes[k] = <<j, RUNNING, RETRIED>>
              /\ jobs'[j].retryCount = jobs[j].retryCount + 1
         ELSE /\ \E k \in 1..Len(lastCall'.changes) :
                   lastCall'.changes[k] = <<j, RUNNING, FAILED>>
              /\ jobs'[j].retryCount = maxRetries]_vars

\* C3: retryCount never exceeds the configured retry limit; it is 0 for a
\* new job and grows by exactly one at each retry decision (a failure
\* reported while retryCount is below the limit), and at no other time.
RetryCountBounded ==
  /\ [](\A j \in 1..Len(jobs) : jobs[j].retryCount <= maxRetries)
  /\ [][\A j \in 1..Len(jobs') :
          IF j > Len(jobs) THEN jobs'[j].retryCount = 0
          ELSE IF FailureReported(lastCall', j)
                  /\ jobs[j].retryCount < maxRetries
          THEN jobs'[j].retryCount = jobs[j].retryCount + 1
          ELSE jobs'[j].retryCount = jobs[j].retryCount]_vars

\* p is a strictly higher priority than q.
HigherPriority(p, q) == ~p.nan /\ ~q.nan /\ p.v > q.v

\* C4: when a dispatch evaluation moves a job to RUNNING, no job it leaves
\* PENDING has a strictly higher priority than a job it started.
PriorityPrecedence ==
  \A a \in Started, b \in PendingIds :
    ~HigherPriority(jobs[b].priority, jobs[a].priority)

\* C5: of two PENDING jobs of equal priority the one submitted earlier is
\* dispatched no later: a job left PENDING was submitted after every job of
\* its priority that the evaluation started.
FifoWithinTier ==
  \A a \in Started, b \in PendingIds :
    (~jobs[a].priority.nan /\ jobs[a].priority = jobs[b].priority) => a < b

\* C6: once an operation has finished, no PENDING job coexists with a free
\* slot.
NoPendingBesideFreeSlot ==
  PendingIds = {} \/ Cardinality(runningJobs) >= maxConcurrent

\* C7: maxConcurrent = 1, maxRetries = 2, A (priority 5) then B (priority 1)
\* submitted: A is dispatched first; once A has failed for good it has
\* retryCount 2 and B is dispatched with no further call; when B has
\* succeeded the statistics are totalJobs 2, failedJobs 1, completedJobs 1,
\* successRate 0.5.
EndToEndScenario ==
  (/\ maxConcurrent = 1 /\ maxRetries = 2
   /\ Len(jobs) = 2 /\ jobIds = {1, 2}
   /\ jobs[1].priority = JSNum(5) /\ jobs[2].priority = JSNum(1)
   /\ jobs[2].retryCount = 0 /\ jobs[2].status # FAILED)
  => /\ jobs[2].startedAt # None => jobs[1].startedAt # None
     /\ jobs[1].status = FAILED =>
          /\ jobs[1].retryCount = 2
          /\ jobs[2].status \in {RUNNING, COMPLETED}
          /\ jobs[2].status = COMPLETED =>
               /\ GetJobStats.totalJobs = 2
               /\ GetJobStats.failedJobs = 1
               /\ GetJobStats.completedJobs = 1
               /\ "successRate" \in DOMAIN GetJobStats
               /\ 2 * GetJobStats.successRate = 1

\* C8: COMPLETED and FAILED are terminal: no handler changes the status of
\* a job that is COMPLETED or FAILED.
TerminalStatusKept ==
  \A e \in Changes : e[2] \in {COMPLETED, FAILED} => e[3] = e[2]

\* The transitions of the job state machine.
AllowedTransitions ==
  {<<PENDING, RUNNING>>, <<RUNNING, COMPLETED>>, <<RUNNING, RETRIED>>,
   <<RETRIED, PENDING>>, <<RUNNING, FAILED>>}

\* C9: every status change the scheduler makes is one of the five
\* transitions of the state machine.
OnlyAllowedTransitions ==
  \A e \in Changes : <<e[2], e[3]>> \in AllowedTransitions

\* C10: after a failed attempt with retries remaining the job is RETRIED and
\* holds no slot; it is not dispatched again by the handler that recorded
\* the failure.
RetriedAfterFailure ==
  [][\A j \in 1..Len(jobs) :
       (FailureReported(lastCall', j) /\ jobs[j].status = RUNNING
          /\ jobs[j].retryCount < maxRetries) =>
         /\ jobs'[j].status = RETRIED
         /\ j \notin runningJobs'
         /\ Outstanding(j)' = Outstanding(j) - 1]_vars

\* C11: a job that is PENDING again after a retry has startedAt and
\* completedAt null, and every dispatch of a job sets its startedAt to the
\* time of that dispatch, so startedAt is the start of the latest attempt.
StartedAtOfLatestAttempt ==
  [][\A j \in 1..Len(jobs') :
       /\ (jobs'[j].status = PENDING /\ jobs'[j].retryCount > 0) =>
            (jobs'[j].startedAt = None /\ jobs'[j].completedAt = None)
       /\ (<<j, PENDING, RUNNING>> \in Changes') =>
            jobs'[j].startedAt = Some(clock')]_vars

\* The last handler started job j and the launch failed: the catch branch
\* of #startJob moved it from RUNNING to FAILED at once.
LaunchFailed(j) ==
  \E k \in 1..(Len(lastCall.changes) - 1) :
    /\ lastCall.changes[k] = <<j, PENDING, RUNNING>>
    /\ lastCall.changes[k + 1] = <<j, RUNNING, FAILED>>

\* C12: a launch that throws or yields no valid process handle follows the
\* retry policy of a failed run: the job is FAILED by it only when its
\* retryCount has reached maxRetries, otherwise it is retried.
LaunchFailureRetried ==
  \A j \in 1..Len(jobs) :
    (LaunchFailed(j) /\ jobs[j].status = FAILED) =>
      jobs[j].retryCount >= maxRetries

\* C13: with maxRetries = 0 a failure reported for a RUNNING job moves it
\* RUNNING->FAILED and nowhere else, with retryCount 0: it is not retried.
ZeroRetryLimit ==
  [][maxRetries = 0 =>
       \A j \in 1..Len(jobs) :
         (FailureReported(lastCall', j) /\ jobs[j].status = RUNNING) =>
           /\ jobs'[j].status = FAILED
           /\ jobs'[j].retryCount = 0
           /\ {e \in Changes' : e[1] = j} = {<<j, RUNNING, FAILED>>}]_vars

\* C14: a dispatch evaluation run directly after another one is a no-op:
\* whatever the first evaluation did, the second changes no job, not the
\* running set, and invokes the launcher for no job.
DispatchIdempotent ==
  \A order1 \in Orders(State) :
    \A launch1 \in Launches(State, order1, LaunchOutcomes) :
      LET first == [ProcessQueue(State, order1, launch1, clock)
                      EXCEPT !.log = <<>>]
      IN \A order2 \in Orders(first) :
           \A launch2 \in Launches(first, order2, LaunchOutcomes) :
             ProcessQueue(first, order2, launch2, clock) = first

\* A priority as the design defines it: an integer from 1 to 5.
ValidPriority(p) == p.type = "number" /\ ~p.nan /\ p.v \in 1..5
\* The priority a submission asks for: 3 when none is given.
RequestedPriority(request) ==
  IF request[3] = JSUndefined THEN JSNum(3) ELSE request[3]
\* Submissions with a malformed name, argument list or priority.
MalformedRequests ==
  {r \in CreateRequests(PriorityInputs) :
     r[1] = "" \/ r[2] # "array" \/ ~ValidPriority(RequestedPriority(r))}

\* C15: a submission with malformed input fails with an error and registers
\* nothing: the job map, the running set and every job are unchanged and no
\* job is dispatched.
MalformedSubmitRejected ==
  [][\A r \in MalformedRequests :
       CreateJobIn({r}, LaunchOutcomes, MaxJobs) =>
         /\ lastCall'.outcome = "threw"
         /\ lastCall'.changes = <<>>
         /\ UNCHANGED <<jobs, jobIds, runningJobs, callbacks>>]_vars

\* Submissions with a well-formed name and argument list.
WellFormedRequests ==
  {r \in CreateRequests(PriorityInputs) : r[1] # "" /\ r[2] = "array"}

\* C16: a submission with priority p stores p when 1 <= p <= 5, stores 3 when
\* no priority is given, and fails otherwise.
SubmitStoresPriority ==
  [][\A r \in WellFormedRequests :
       CreateJobIn({r}, LaunchOutcomes, MaxJobs) =>
         IF ValidPriority(RequestedPriority(r))
         THEN /\ lastCall'.outcome = "returned"
              /\ Len(jobs') = Len(jobs) + 1
              /\ jobs'[Len(jobs')].priority = RequestedPriority(r)
         ELSE lastCall'.outcome = "threw"]_vars

\* C17: in every reachable state every job's priority is an integer from 1
\* to 5.
PriorityInRange ==
  \A j \in 1..Len(jobs) : ValidPriority(jobs[j].priority)

\* Job b is PENDING with a priority strictly above that of every other
\* PENDING job.
TopPending(b) ==
  /\ b \in PendingIds
  /\ \A o \in PendingIds \ {b} :
       HigherPriority(jobs[b].priority, jobs[o].priority)

\* C18: a PENDING job whose priority is above that of the other PENDING
\* jobs is dispatched before them: while the priorities stay as they are, no
\* handler starts one of the others and leaves that job PENDING.
RaisedJobFirst ==
  [][\A b, o \in jobIds :
       (/\ TopPending(b) /\ o \in PendingIds \ {b}
        /\ jobs'[b].priority = jobs[b].priority
        /\ jobs'[o].priority = jobs[o].priority
        /\ o \in Started') => b \in Started']_vars

\* C19: remove(id) of a registered job succeeds when the job is PENDING or
\* PAUSED, and only then; in any other status it fails with invalid_status,
\* reports the job's status, and leaves jobs, job map and running set as
\* they were.
RemoveOnlyWhenDeletable ==
  [][\A id \in jobIds :
       (lastCall'.op = "deleteJob" /\ lastCall'.id = id) =>
         IF jobs[id].status \in {PENDING, PAUSED}
         THEN lastCall'.outcome = "success"
         ELSE /\ lastCall'.outcome = "invalid_status"
              /\ DeleteJobResult(id).status = jobs[id].status
              /\ UNCHANGED <<jobs, jobIds, runningJobs>>]_vars

\* The removal of a RUNNING job has been refused.
RemoveOnlyWhenDeletableWitness ==
  /\ lastCall.op = "deleteJob" /\ lastCall.outcome = "invalid_status"
  /\ lastCall.id \in jobIds
  /\ jobs[lastCall.id].status = RUNNING
  /\ lastCall.id \in runningJobs

\* The jobs that have been removed from the job map.
Removed == (1..Len(jobs)) \ jobIds

\* C20: a removed job is in no later get, list or stats result, and is never
\* dispatched: no handler changes it, it holds no slot and no launcher
\* invocation is outstanding for it.
RemovedJobGone ==
  /\ [](\A j \in Removed :
          /\ GetJobById(j) = None
          /\ \A k \in 1..Len(GetAllJobs) : GetAllJobs[k] # j
          /\ GetJobStats.totalJobs = Len(jobs) - Cardinality(Removed)
          /\ j \notin runningJobs
          /\ Outstanding(j) = 0)
  /\ [][\A j \in Removed : j \notin Started' /\ jobs'[j] = jobs[j]]_vars

\* After a PENDING job was removed, a dispatch evaluation started another
\* job.
RemovedJobGoneWitness ==
  /\ \E j \in Removed : jobs[j].status = PENDING
  /\ Started # {}

\* C21: get, updatePriority and remove with an id that is not in the job
\* map report not-found (null, 'not_found') and change no job, nor the job
\* map, nor the running set.
UnknownIdNotFound ==
  /\ [](\A id \in (0..Len(jobs)) \ jobIds : GetJobById(id) = None)
  /\ [][(/\ lastCall'.op \in {"updateJobPriority", "deleteJob"}
          /\ lastCall'.id \notin jobIds) =>
           /\ lastCall'.outcome =
                IF lastCall'.op = "deleteJob" THEN "not_found" ELSE "null"
           /\ lastCall'.changes = <<>>
           /\ UNCHANGED <<jobs, jobIds, runningJobs, callbacks>>]_vars

\* updatePriority was called for a job that had been removed.
UnknownIdNotFoundWitness ==
  /\ lastCall.op = "updateJobPriority" /\ lastCall.outcome = "null"
  /\ lastCall.id \in Removed
  /\ GetJobById(lastCall.id) = None

\* C22: at the boundary a creation request without a name, and an
\* update-priority request whose priority is missing or is no integer from
\* 1 to 5, are answered 400; an update or a get for an unknown id is
\* answered 404; none of them changes the scheduler's state.
BoundaryErrorCodes ==
  /\ [](\A id \in (0..Len(jobs)) \ jobIds :
          JobControllerGetJobById(id) = "404")
  /\ [][/\ \A body \in {b \in CreateBodies : b[1] = ""} :
            JobControllerCreateJob(body, {"pid"}, MaxBoundaryJobs) =>
              /\ lastCall'.outcome = "400"
              /\ UNCHANGED <<jobs, jobIds, runningJobs, callbacks>>
        /\ \A id \in 0..Len(jobs), body \in PriorityBodies :
            JobControllerUpdateJobPriorityById(id, body, {"pid"}) =>
              /\ lastCall'.outcome =
                   IF body = JSUndefined
                      \/ (id \in jobIds /\ ~ValidPriority(body)) THEN "400"
                   ELSE IF id \notin jobIds THEN "404"
                   ELSE "200"
              /\ lastCall'.outcome # "200" =>
                   UNCHANGED <<jobs, jobIds, runningJobs, callbacks>>]_vars

\* C23: a launcher failure never reaches the submitting caller: a well-formed
\* submit returns the created job whatever the launcher does for the jobs
\* its dispatch starts, and a failed launch or a failure reported for a
\* RUNNING job shows as that job's RETRIED or FAILED status.
LaunchFailureContained ==
  [][/\ \A request \in {r \in WellFormedRequests :
                           ValidPriority(RequestedPriority(r))} :
          CreateJobIn({request}, LaunchOutcomes, MaxJobs) =>
            /\ lastCall'.outcome = "returned"
            /\ lastCall'.id = Len(jobs) + 1
            /\ lastCall'.id \in jobIds'
     /\ \A j \in 1..Len(jobs') :
          (\/ LaunchFailed(j)'
           \/ (FailureReported(lastCall', j) /\ jobs[j].status = RUNNING)) =>
            \/ jobs'[j].status \in {RETRIED, FAILED}
            \/ \E k \in 1..Len(lastCall'.changes) :
                 lastCall'.changes[k] = <<j, RUNNING, RETRIED>>]_vars

\* C24: an internal error raised while a completion is handled is caught
\* inside the completion handler: no exception leaves it, the job's slot is
\* free and the job is FAILED when the handler ends.
CompletionErrorCaught ==
  [][\A id \in 1..Len(jobs), kind \in {"spawned", "unspawned"},
       err \in BOOLEAN, k \in InterruptionPoints :
       CompleteInterrupted(id, kind, err, k) =>
         /\ lastCall'.outcome # "uncaught"
         /\ id \notin runningJobs'
         /\ jobs'[id].status = FAILED]_vars

\* C25: a job handed to a caller is a read-only snapshot: nothing the caller
\* does with it changes the status, the timestamps, the retryCount or the
\* priority of the job the scheduler holds.
HandedJobIsSnapshot ==
  [][\A id \in 1..Len(jobs), method \in JobMethodCalls :
       JobMethodCall(id, method) =>
         /\ jobs'[id].status = jobs[id].status
         /\ jobs'[id].createdAt = jobs[id].createdAt
         /\ jobs'[id].startedAt = jobs[id].startedAt
         /\ jobs'[id].completedAt = jobs[id].completedAt
         /\ jobs'[id].retryCount = jobs[id].retryCount
         /\ jobs'[id].priority = jobs[id].priority]_vars

\* Status filters of a list call: none, each status, a status in another
\* case.
StatusFilters == {""} \cup JobStatus \cup {"PENDING"}
\* limit and offset of a list call: omitted, numbers, query numerals.
ListLimits == {JSUndefined, JSNum(1), JSNum(2), JSNumeral(1), JSNumeral(2)}
ListOffsets == {JSUndefined, JSNum(0), JSNum(1), JSNumeral(0), JSNumeral(1)}
\* The ids of the jobs of the collection whose status is the filter.
WithStatus(status) == {i \in jobIds : jobs[i].status = status}

\* C26: list with a status filter returns only jobs whose status equals the
\* filter, and total is the number of jobs of the collection with that
\* status, whatever the pagination; without a filter total is the size of
\* the collection.
ListFilterAndTotal ==
  \A status \in StatusFilters, limit \in ListLimits, offset \in ListOffsets :
    LET result == GetFilteredJobs(status, limit, offset)
    IN IF status = ""
       THEN result.total = Cardinality(jobIds)
       ELSE /\ result.total = Cardinality(WithStatus(status))
            /\ \A k \in 1..Len(result.jobs) :
                 jobs[result.jobs[k]].status = status

\* Two of three jobs are FAILED: the filtered list of one element reports
\* total 2, and the unfiltered one total 3.
ListFilterAndTotalWitness ==
  /\ Cardinality(jobIds) = 3
  /\ Cardinality(WithStatus(FAILED)) = 2
  /\ GetFilteredJobs(FAILED, JSNum(1), JSNum(0)).total = 2
  /\ Len(GetFilteredJobs(FAILED, JSNum(1), JSNum(0)).jobs) = 1
  /\ GetFilteredJobs("", JSNum(1), JSNum(0)).total = 3

\* The elements of list at the 0-based positions [offset, offset + limit).
Page(list, offset, limit) ==
  SubSeq(list, offset + 1, Min(offset + limit, Len(list)))
\* The collection in insertion order, filtered by an exact status.
Filtered(status) ==
  IF status = "" THEN GetAllJobs ELSE FilterByStatus(GetAllJobs, status)
\* Query strings of GET /jobs: limit and offset omitted or numerals.
ListQueries ==
  [status : {"", PENDING, FAILED},
   limit : {JSUndefined, JSNumeral(1), JSNumeral(2)},
   offset : {JSUndefined, JSNumeral(0), JSNumeral(1)}]
\* The number a limit or an offset stands for.
Given(x, default) == IF x = JSUndefined THEN default ELSE x.v

\* C27: list({limit, offset}) returns exactly the elements at positions
\* [offset, offset + limit) of the filtered set in insertion order, so never
\* more than limit jobs, for limit and offset passed as numbers and for the
\* query values the boundary handler passes.
ListPage ==
  /\ \A status \in StatusFilters, limit \in {JSUndefined, JSNum(1), JSNum(2)},
        offset \in {JSUndefined, JSNum(0), JSNum(1)} :
       GetFilteredJobs(status, limit, offset).jobs =
         Page(Filtered(status), Given(offset, DefaultOffset),
              Given(limit, DefaultLimit))
  /\ \A query \in ListQueries :
       /\ JobControllerGetAllJobs(query).jobs =
            Page(Filtered(query.status), Given(query.offset, DefaultOffset),
                 Given(query.limit, DefaultLimit))
       /\ Len(JobControllerGetAllJobs(query).jobs)
            <= Given(query.limit, DefaultLimit)

CompletedShare ==
  IF jobIds = {} THEN Quotient(0, 1)
  ELSE Quotient(Cardinality(WithStatus(COMPLETED)), Cardinality(jobIds))

\* C29: stats().successRate is completedCount / totalCount as a fraction
\* from 0 to 1, and 0 when there are no jobs.
SuccessRateIsFraction ==
  /\ "successRate" \in DOMAIN GetJobStats
  /\ SameQuotient(GetJobStats.successRate, CompletedShare)

\* The jobs of the collection that were retried, and the COMPLETED ones
\* among them.
Retried == {i \in jobIds : jobs[i].retryCount > 0}
RetriedCompleted == {i \in Retried : jobs[i].status = COMPLETED}
\* a - b for two quotients
QuotientDifference(a, b) == Quotient(a[1] * b[2] - b[1] * a[2], a[2] * b[2])

\* What the claim asks of the pattern over the retried jobs in an aggregate.
RetriedPatternRight(stats) ==
  /\ "patterns" \in DOMAIN stats
  /\ Retried # {} =>
       \E k \in 1..Len(stats.patterns) :
         LET p == stats.patterns[k]
             share == Quotient(Cardinality(RetriedCompleted),
                               Cardinality(Retried))
         IN /\ p.pattern = "Jobs that were retried"
            /\ p.matchCount = Cardinality(Retried)
            /\ SameQuotient(p.successRate, share)
            /\ SameQuotient(p.differenceFromAverage,
                            QuotientDifference(share, CompletedShare))

\* C30: for a descriptive pattern of stats() (here: retryCount > 0),
\* matchCount is the number of jobs satisfying the predicate, successRate is
\* the share of COMPLETED jobs among the matched jobs only, and
\* differenceFromAverage is that share minus the overall success rate.
PatternsOfStats == RetriedPatternRight(GetJobStats)

\* C31: no job is stuck: with finitely many submissions and every launcher
\* invocation eventually reporting its completion, every submitted job
\* eventually is COMPLETED or FAILED, with no further call from outside.
NoJobStuck ==
  \A j \in 1..MaxLiveJobs :
    [](j \in jobIds =>
         <>(j \in jobIds /\ jobs[j].status \in {COMPLETED, FAILED}))

\* C32: no double dispatch: the launcher is invoked for a job (the job is
\* moved to RUNNING) only when the job is PENDING at that moment, and no job
\* has more than one launcher invocation outstanding, also when a
\* completion is delivered while a dispatch evaluation iterates over its
\* list of pending jobs.
NoDoubleDispatch ==
  /\ \A j \in 1..Len(jobs) : Outstanding(j) <= 1
  /\ \A k \in 1..Len(lastCall.changes) :
       lastCall.changes[k][3] = RUNNING => lastCall.changes[k][2] = PENDING

Cleared == (1..Len(jobs)) \ jobIds

RECURSIVE ProcessesUnderWay(_)
ProcessesUnderWay(n) ==
  IF n = 0 THEN 0 ELSE callbacks[n].spawned + ProcessesUnderWay(n - 1)

\* C34: at most maxConcurrent slots are occupied by real work: the launcher
\* invocations that were started and have not delivered their completion
\* are never more than maxConcurrent.
ProcessesWithinCap == ProcessesUnderWay(Len(jobs)) <= maxConcurrent

\* The orders of the PENDING jobs by descending priority, the earlier
\* submitted first within a priority.
PriorityOrders ==
  {o \in Orderings(PendingList(State)) :
     \A k, l \in 1..Len(PendingList(State)) :
       k < l =>
         /\ ~HigherPriority(jobs[o[l]].priority, jobs[o[k]].priority)
         /\ jobs[o[l]].priority = jobs[o[k]].priority => o[k] < o[l]}

\* C35: a dispatch evaluation, with a launcher that returns a process for
\* every job, moves exactly the first min(availableSlots, pendingCount) jobs
\* of the priority-ordered pending list to RUNNING, adds their ids to the
\* running set and invokes the launcher once for each, and changes nothing
\* else; with no free slot it changes nothing at all.
DispatchMovesFirstJobs ==
  \A order \in Orders(State) :
    \A launch \in Launches(State, order, {"pid"}) :
      LET after == ProcessQueue(State, order, launch, clock)
          availableSlots == Max(maxConcurrent - Cardinality(runningJobs), 0)
          n == Min(availableSlots, Cardinality(PendingIds))
      IN \E o \in PriorityOrders :
           LET first == {o[k] : k \in 1..n}
           IN /\ after.jobIds = jobIds
              /\ after.runningJobs = runningJobs \cup first
              /\ \A j \in 1..Len(jobs) :
                   IF j \in first
                   THEN /\ after.jobs[j] =
                             SetProcess(UpdateStatus(jobs[j], RUNNING, clock))
                        /\ after.callbacks[j] =
                             [callbacks[j] EXCEPT !.spawned = @ + 1]
                   ELSE /\ after.jobs[j] = jobs[j]
                        /\ after.callbacks[j] = callbacks[j]

\* C36: exit codes match outcomes: a COMPLETED job has exitCode 0, and a job
\* that a failure report turns FAILED has the nonzero exit code the report
\* carries as its exitCode.
ExitCodeMatchesOutcome ==
  /\ [](\A j \in 1..Len(jobs) :
          jobs[j].status = COMPLETED => jobs[j].exitCode = Some(0))
  /\ [][\A id \in 1..Len(jobs), code \in ExitCodes \ {0} :
          (CallbackReporting(id, code, {"pid"})
             /\ jobs'[id].status = FAILED) =>
            jobs'[id].exitCode = Some(code)]_vars

\* C37: timestamps are consistent in every state: completedAt is set
\* exactly when the status is COMPLETED or FAILED, startedAt is set whenever
\* the status is RUNNING, COMPLETED or FAILED, both are null for a PENDING
\* job that was never dispatched, and startedAt <= completedAt when both
\* are set.
TimestampsConsistent ==
  \A j \in 1..Len(jobs) :
    /\ jobs[j].completedAt # None <=> jobs[j].status \in {COMPLETED, FAILED}
    /\ jobs[j].status \in {RUNNING, COMPLETED, FAILED} =>
         jobs[j].startedAt # None
    /\ (jobs[j].status = PENDING /\ jobs[j].retryCount = 0) =>
         jobs[j].startedAt = None /\ jobs[j].completedAt = None
    /\ (jobs[j].startedAt # None /\ jobs[j].completedAt # None) =>
         jobs[j].startedAt[1] <= jobs[j].completedAt[1]

\* C38: every Job mutator validates before it mutates: updateStatus with an
\* unknown status, updatePriority with an invalid priority, setExitCode with
\* a code that is no number and setProcess with a handle without a process
\* identifier each raise an error and leave every field of the job as it
\* was.
MutatorsValidateFirst ==
  [][\A id \in 1..Len(jobs), method \in InvalidJobMethodCalls :
       JobMethodCall(id, method) =>
         lastCall'.outcome = "threw" /\ jobs'[id] = jobs[id]]_vars

\* C39: updatePriority with a valid priority on a job that is not PENDING
\* changes only that job's priority: its status, timestamps, retryCount and
\* exitCode, every other job and the running set are unchanged, and no
\* dispatch evaluation runs (no job is started, no launcher invoked).
UpdateOfStartedJobOnlySetsPriority ==
  [][\A p \in {q \in UpdatedPriorities : ValidPriority(q)} :
       (/\ UpdateJobPriorityIn({p}, {"pid"})
        /\ lastCall'.id \in jobIds
        /\ jobs[lastCall'.id].status # PENDING) =>
         /\ jobs' = [jobs EXCEPT ![lastCall'.id].priority = p]
         /\ lastCall'.outcome = "returned"
         /\ lastCall'.changes = <<>>
         /\ UNCHANGED <<jobIds, runningJobs, callbacks>>]_vars

\* The priority of a FAILED job was updated while another job was PENDING
\* beside the free slot, and that job is still PENDING.
UpdateOfStartedJobOnlySetsPriorityWitness ==
  /\ lastCall.op = "updateJobPriority" /\ lastCall.outcome = "returned"
  /\ lastCall.id \in jobIds
  /\ jobs[lastCall.id].status = FAILED
  /\ jobs[lastCall.id].priority = JSNum(5)
  /\ PendingIds # {}
  /\ runningJobs = {}
====
